---- MODULE Spec2Model ----
(***************************************************************************)
(* A model of disgo (src/disgo.go): one invocation of the command reads    *)
(* its flags and stdin, loads the profile, merges the flags into the       *)
(* configuration, echoes stdin when passthrough is on, and posts the       *)
(* (split) content to a Discord channel or thread.                         *)
(*                                                                         *)
(* A Go string is modelled as a sequence of one-character strings, so      *)
(* len(s) is Len(s) and s[a:b] is SubSeq(s, a + 1, b).                     *)
(***************************************************************************)
EXTENDS Integers, Sequences, FiniteSets, TLC

VARIABLES
    runs,       \* invocations running loadConfig at once on one profile
    args,       \* the command line: a function from the supplied flags to values
    stdin,      \* the process's standard input: [tty, data, readable]
    file,       \* the profile files of the config directory, by profile name
    flags,      \* the CLI struct's flag fields (c.token, c.tagMode, ...)
    config,     \* c.config
    stdinData,  \* c.stdinData
    stdout,     \* the bytes written to os.Stdout
    session,    \* the token of the Discord session ("" before it is created)
    messages,   \* sendToDiscord's messages (the result of splitMessage)
    starterID,  \* sendToDiscord's msg.ID, the id of the thread starter message
    threadID,   \* sendToDiscord's threadID
    idx,        \* sendToDiscord's loop index i (0-based) over messages
    calls,      \* the requests issued to the Discord API, in order
    writes,     \* the number of os.WriteFile calls made on a profile file
    pc,         \* the position of main
    exitCode,   \* the exit status: -1 while main runs
    errMsg      \* the error reported on os.Stderr ("" when none)
vars ==
    << runs, args, stdin, file, flags, config, stdinData, stdout, session, messages,
       starterID, threadID, idx, calls, writes, pc, exitCode, errMsg >>

----------------------------------------------------------------------------
(* Bounds of the model. *)

\* the longest short content (stdin) enumerated for the segmenter
MaxLen == 4
\* the longest stdin enumerated for a whole run
MaxStdin == 3
\* long contents are DefaultMaxMessageSize - PadSlack .. + PadSlack pad bytes
\* with a short prefix and suffix around them
PadSlack == 1
\* the most flags on a command line
MaxFlags == 2

----------------------------------------------------------------------------
(* Strings and program constants. *)

NL == "\n"

\* src/disgo.go:23
DefaultMaxMessageSize == 2000
ModeReplace == << "r", "e", "p", "l", "a", "c", "e" >>
ModeMerge == << "m", "e", "r", "g", "e" >>
ModeSerialize == << "s", "e", "r", "i", "a", "l", "i", "z", "e" >>
ModeTruncate == << "t", "r", "u", "n", "c", "a", "t", "e" >>

Min(a, b) == IF a < b THEN a ELSE b

\* Go's s[lo:hi]
Slice(s, lo, hi) == SubSeq(s, lo + 1, hi)

\* strings.LastIndex(s, "\n"): the 0-based index of the last newline, or -1
LastIndexNL(s) ==
    LET at == { i \in 1 .. Len(s) : s[i] = NL }
    IN  IF at = {} THEN -1 ELSE (CHOOSE i \in at : \A j \in at : j <= i) - 1

RECURSIVE Concat(_)
Concat(ss) == IF ss = << >> THEN << >> ELSE Head(ss) \o Concat(Tail(ss))

\* all sequences over S of length 0 .. n
RECURSIVE SeqsUpTo(_, _)
SeqsUpTo(S, n) ==
    IF n = 0 THEN { << >> }
    ELSE LET shorter == SeqsUpTo(S, n - 1)
         IN  shorter \cup { Append(s, c) : s \in { t \in shorter : Len(t) = n - 1 }, c \in S }

Repeat(c, n) == [ i \in 1 .. n |-> c ]

----------------------------------------------------------------------------
(* Config and the message segmenter. *)

\* the zero value of Config (NewCLI leaves c.config zero)
ZeroConfig ==
    [ Token |-> << >>, ChannelID |-> << >>, ServerID |-> << >>,
      Username |-> << >>, Tags |-> << >>, TagMode |-> << >>,
      Properties |-> << >>, PropertyMode |-> << >>, Debug |-> FALSE,
      MaxMessageSize |-> 0, MessageMode |-> << >>, ThreadName |-> << >>,
      Passthrough |-> FALSE ]

getEffectiveMaxMessageSize_OffByOne(cfg) ==
    IF cfg.MaxMessageSize <= 1 THEN DefaultMaxMessageSize
    ELSE cfg.MaxMessageSize

getEffectiveMaxMessageSize(cfg) ==
    IF cfg.MaxMessageSize <= 0 THEN DefaultMaxMessageSize
    ELSE cfg.MaxMessageSize

truncateMessage_Short(content, maxSize) == << Slice(content, 0, maxSize - 1) >>

\* return []string{content[:maxSize]}
truncateMessage(content, maxSize) == << Slice(content, 0, maxSize) >>

candidateSplitAt_NoMin(remaining, maxSize) == Len(remaining)

\* splitAt := maxSize; if len(remaining) < splitAt { splitAt = len(remaining) }
candidateSplitAt(remaining, maxSize) ==
    IF Len(remaining) < maxSize THEN Len(remaining) ELSE maxSize

newlineSplitAt_AtZero(remaining, splitAt) ==
    IF splitAt < Len(remaining)
    THEN LET lastNewline == LastIndexNL(Slice(remaining, 0, splitAt))
         IN  IF lastNewline >= 0 THEN lastNewline + 1 ELSE splitAt
    ELSE splitAt

newlineSplitAt_NoAdjust(remaining, splitAt) == splitAt

\* the newline adjustment of the candidate
newlineSplitAt(remaining, splitAt) ==
    IF splitAt < Len(remaining)
    THEN LET lastNewline == LastIndexNL(Slice(remaining, 0, splitAt))
         IN  IF lastNewline > 0 THEN lastNewline + 1 ELSE splitAt
    ELSE splitAt

advanceRemaining_SkipByte(remaining, splitAt) ==
    IF splitAt < Len(remaining) /\ remaining[splitAt] = NL
    THEN Slice(remaining, splitAt + 1, Len(remaining))
    ELSE Slice(remaining, splitAt, Len(remaining))

\* remaining = remaining[splitAt:]
advanceRemaining(remaining, splitAt) == Slice(remaining, splitAt, Len(remaining))

RECURSIVE serializeLoop_TrailingEmpty(_, _, _)
serializeLoop_TrailingEmpty(remaining, maxSize, msgs) ==
    IF Len(remaining) > 0
    THEN LET splitAt ==
                 newlineSplitAt(remaining, candidateSplitAt(remaining, maxSize))
         IN  serializeLoop_TrailingEmpty(advanceRemaining(remaining, splitAt),
                 maxSize, Append(msgs, Slice(remaining, 0, splitAt)))
    ELSE Append(msgs, << >>)

\* the loop of the serialize case
RECURSIVE serializeLoop(_, _, _)
serializeLoop(remaining, maxSize, msgs) ==
    IF Len(remaining) > 0
    THEN LET splitAt ==
                 newlineSplitAt(remaining, candidateSplitAt(remaining, maxSize))
         IN  serializeLoop(advanceRemaining(remaining, splitAt), maxSize,
                           Append(msgs, Slice(remaining, 0, splitAt)))
    ELSE msgs

splitMessage_DefaultSerialize(cfg, content) ==
    LET maxSize == getEffectiveMaxMessageSize(cfg)
    IN  IF Len(content) <= maxSize THEN << content >>
        ELSE IF cfg.MessageMode = ModeTruncate
             THEN truncateMessage(content, maxSize)
        ELSE serializeLoop(content, maxSize, << >>)

splitMessage_NoEarlyReturn(cfg, content) ==
    LET maxSize == getEffectiveMaxMessageSize(cfg)
    IN  IF cfg.MessageMode = ModeSerialize
        THEN serializeLoop(content, maxSize, << >>)
        ELSE truncateMessage(content, Min(Len(content), maxSize))

splitMessage(cfg, content) ==
    LET maxSize == getEffectiveMaxMessageSize(cfg)
    IN  IF Len(content) <= maxSize THEN << content >>
        ELSE IF cfg.MessageMode = ModeTruncate
             THEN truncateMessage(content, maxSize)
        ELSE IF cfg.MessageMode = ModeSerialize
             THEN serializeLoop(content, maxSize, << >>)
        ELSE truncateMessage(content, maxSize)

----------------------------------------------------------------------------
(* Flag parsing helpers: strings.Split, strings.TrimSpace, parseTags,      *)
(* parseProperties.                                                        *)

NoFlag == << >>

IsSpace(c) == c \in { " ", "\t", "\n", "\r" }

RECURSIVE TrimLeft(_)
TrimLeft(s) ==
    IF s # << >> /\ IsSpace(Head(s)) THEN TrimLeft(Tail(s)) ELSE s

RECURSIVE TrimRight(_)
TrimRight(s) ==
    IF s # << >> /\ IsSpace(s[Len(s)])
    THEN TrimRight(SubSeq(s, 1, Len(s) - 1))
    ELSE s

\* strings.TrimSpace
TrimSpace(s) == TrimRight(TrimLeft(s))

\* strings.Split(s, sep) for a one-character sep: always at least one element
RECURSIVE stringsSplit(_, _)
stringsSplit(s, sep) ==
    LET at == { i \in 1 .. Len(s) : s[i] = sep }
    IN  IF at = {} THEN << s >>
        ELSE LET i == CHOOSE k \in at : \A j \in at : k <= j
             IN  << SubSeq(s, 1, i - 1) >> \o stringsSplit(SubSeq(s, i + 1, Len(s)), sep)

\* a nil slice and an empty slice are both << >>
parseTags(tagStr) ==
    IF tagStr = << >> THEN << >>
    ELSE LET tags == stringsSplit(tagStr, ",")
         IN  [ i \in 1 .. Len(tags) |-> TrimSpace(tags[i]) ]

RECURSIVE putPairs_KeepMalformed(_, _)
putPairs_KeepMalformed(pairs, props) ==
    IF pairs = << >> THEN props
    ELSE LET kv == stringsSplit(TrimSpace(Head(pairs)), ":")
         IN  putPairs_KeepMalformed(Tail(pairs),
                 IF Len(kv) >= 2
                 THEN (TrimSpace(kv[1]) :> TrimSpace(kv[2])) @@ props
                 ELSE (TrimSpace(kv[1]) :> << >>) @@ props)

\* the map built by the loop over pairs: a later pair overwrites an earlier one
RECURSIVE putPairs(_, _)
putPairs(pairs, props) ==
    IF pairs = << >> THEN props
    ELSE LET kv == stringsSplit(TrimSpace(Head(pairs)), ":")
         IN  putPairs(Tail(pairs),
                 IF Len(kv) = 2
                 THEN (TrimSpace(kv[1]) :> TrimSpace(kv[2])) @@ props
                 ELSE props)

parseProperties(propStr) ==
    IF propStr = << >> THEN << >>
    ELSE putPairs(stringsSplit(propStr, ";"), << >>)

----------------------------------------------------------------------------
(* The configuration file (YAML) and loadConfig.                           *)

\* the yaml tags of Config's fields
YamlKey ==
    [ Token |-> "token", ChannelID |-> "channel_id", ServerID |-> "server_id",
      Username |-> "username", Tags |-> "tags", TagMode |-> "tag_mode",
      Properties |-> "properties", PropertyMode |-> "property_mode",
      Debug |-> "debug", MaxMessageSize |-> "max_message_size",
      MessageMode |-> "message_mode", ThreadName |-> "thread_name",
      Passthrough |-> "passthrough" ]

Marshal_Untagged(cfg) ==
    [ k \in { YamlKey[f] : f \in DOMAIN cfg \ { "Username" } } |->
        cfg[CHOOSE f \in DOMAIN cfg : YamlKey[f] = k] ]

\* yaml.Marshal: a document is a function from the keys it holds to values
Marshal(cfg) ==
    [ k \in { YamlKey[f] : f \in DOMAIN cfg } |->
        cfg[CHOOSE f \in DOMAIN cfg : YamlKey[f] = k] ]

\* yaml.Unmarshal(data, &c.config): a key of the document sets its field, a
\* field whose key is missing keeps its value
Unmarshal(doc, cfg) ==
    [ f \in DOMAIN cfg |->
        IF YamlKey[f] \in DOMAIN doc THEN doc[YamlKey[f]] ELSE cfg[f] ]

BotName == << "d", "i", "s", "g", "o", "-", "b", "o", "t" >>

\* createDefaultConfig's defaultConfig
DefaultConfig ==
    [ Token |-> << >>, ChannelID |-> << >>, ServerID |-> << >>,
      Username |-> BotName, Tags |-> << >>, TagMode |-> ModeMerge,
      Properties |-> << >>, PropertyMode |-> ModeMerge, Debug |-> FALSE,
      MaxMessageSize |-> DefaultMaxMessageSize, MessageMode |-> ModeSerialize,
      ThreadName |-> << >>, Passthrough |-> FALSE ]

DefaultProfile == << "d", "e", "f", "a", "u", "l", "t" >>
OtherProfile == << "p" >>
Profiles == { DefaultProfile, OtherProfile }

Absent == [ state |-> "absent", doc |-> << >> ]
Unreadable == [ state |-> "unreadable", doc |-> << >> ]
Garbage == [ state |-> "garbage", doc |-> << >> ]
Truncated == [ state |-> "truncated", doc |-> << >> ]
Yaml(doc) == [ state |-> "yaml", doc |-> doc ]

----------------------------------------------------------------------------
(* mergeFlags.                                                             *)

Range(s) == { s[i] : i \in DOMAIN s }

\* the slices holding each element of S once, in any order (the order of a
\* range over a Go map is not specified)
Perms(S) ==
    { p \in [ 1 .. Cardinality(S) -> S ] :
        \A i, j \in 1 .. Cardinality(S) : p[i] = p[j] => i = j }

Override_Always(new, old) == new

\* if c.x != "" { c.config.X = c.x }
Override(new, old) == IF new # << >> THEN new ELSE old

stickyTrue_Assign(flag, old) == flag

\* if c.debug { c.config.Debug = true }
stickyTrue(flag, old) == IF flag THEN TRUE ELSE old

overrideMaxSize_PositiveOnly(size, old) ==
    IF size # DefaultMaxMessageSize /\ size > 0 THEN size ELSE old

\* if c.maxMessageSize != DefaultMaxMessageSize { ... }
overrideMaxSize(size, old) == IF size # DefaultMaxMessageSize THEN size ELSE old

\* lines 215-251: the scalar fields
mergeScalars(cfg, f) ==
    [ cfg EXCEPT
        !.Token = Override(f.token, @),
        !.ChannelID = Override(f.channelID, @),
        !.ServerID = Override(f.serverID, @),
        !.Username = Override(f.username, @),
        !.Debug = stickyTrue(f.debug, @),
        !.Passthrough = stickyTrue(f.passthrough, @),
        !.TagMode = Override(f.tagMode, @),
        !.PropertyMode = Override(f.propertyMode, @),
        !.MaxMessageSize = overrideMaxSize(f.maxMessageSize, @),
        !.MessageMode = Override(f.messageMode, @),
        !.ThreadName = Override(f.threadName, @) ]

mergedTags_StrictMerge(cfg, f) ==
    IF f.tags # << >>
    THEN LET newTags == parseTags(f.tags)
         IN  IF cfg.TagMode = ModeMerge
             THEN Perms(Range(cfg.Tags) \cup Range(newTags))
             ELSE { newTags }
    ELSE { cfg.Tags }

mergedTags_Append(cfg, f) ==
    IF f.tags # << >>
    THEN LET newTags == parseTags(f.tags)
         IN  IF cfg.TagMode = ModeReplace THEN { newTags }
             ELSE { cfg.Tags \o newTags }
    ELSE { cfg.Tags }

\* lines 253-273: the values c.config.Tags can take, cfg being the
\* configuration after the scalar merges
mergedTags(cfg, f) ==
    IF f.tags # << >>
    THEN LET newTags == parseTags(f.tags)
         IN  IF cfg.TagMode = ModeReplace THEN { newTags }
             ELSE Perms(Range(cfg.Tags) \cup Range(newTags))
    ELSE { cfg.Tags }

mergedProperties_EmptyClears(cfg, f) ==
    LET newProps == parseProperties(f.properties)
    IN  IF cfg.PropertyMode = ModeReplace THEN newProps
        ELSE newProps @@ cfg.Properties

mergedProperties_ExistingWins(cfg, f) ==
    IF f.properties # << >>
    THEN LET newProps == parseProperties(f.properties)
         IN  IF cfg.PropertyMode = ModeReplace THEN newProps
             ELSE cfg.Properties @@ newProps
    ELSE cfg.Properties

\* lines 275-288
mergedProperties(cfg, f) ==
    IF f.properties # << >>
    THEN LET newProps == parseProperties(f.properties)
         IN  IF cfg.PropertyMode = ModeReplace THEN newProps
             ELSE newProps @@ cfg.Properties
    ELSE cfg.Properties

mergeFlags_StaleMode(cfg, f) ==
    LET merged == mergeScalars(cfg, f)
    IN  { [ merged EXCEPT !.Tags = tags, !.Properties = mergedProperties(cfg, f) ] :
            tags \in mergedTags(cfg, f) }

\* the configurations mergeFlags can leave in c.config
mergeFlags(cfg, f) ==
    LET merged == mergeScalars(cfg, f)
    IN  { [ merged EXCEPT !.Tags = tags, !.Properties = mergedProperties(merged, f) ] :
            tags \in mergedTags(merged, f) }

----------------------------------------------------------------------------
(* The inputs of a run.                                                    *)

Alphabet == { "a", NL }

\* the flags a command line can hold, one value per flag
FlagOptions ==
    { "config" :> OtherProfile,
      "token" :> << "T" >>,
      "channel" :> << "C" >>,
      "server" :> << "S" >>,
      "username" :> << "U" >>,
      "tags" :> << "x", ",", " ", "y" >>,
      "tag-mode" :> ModeReplace,
      "properties" :> << "k", ":", "w", ";", "j" >>,
      "property-mode" :> ModeReplace,
      "debug" :> TRUE,
      "passthrough" :> TRUE,
      "max-size" :> 1,
      "message-mode" :> ModeTruncate,
      "thread" :> << "t" >> }

\* the long names parseFlags defines ("c", "t", "ch", "s" and "u" are
\* shorthands of the first five and set the same fields)
DefinedFlags ==
    { "config", "token", "channel", "server", "username", "tags", "tag-mode",
      "properties", "property-mode", "debug", "passthrough", "max-size",
      "message-mode", "thread" }

\* the command lines of at most n distinct flags
RECURSIVE ArgsUpTo(_)
ArgsUpTo(n) ==
    IF n = 0 THEN { NoFlag }
    ELSE LET fewer == ArgsUpTo(n - 1)
         IN  fewer \cup
             { ao[1] @@ ao[2] :
                 ao \in { x \in fewer \X FlagOptions :
                            DOMAIN x[1] \cap DOMAIN x[2] = {} } }

\* a command line flag.Parse rejects
BadArgs == "no-such-flag" :> << >>

\* a stored profile with credentials, tags and properties
StoredConfig ==
    [ DefaultConfig EXCEPT
        !.Token = << "B", "o", "t", " ", "K" >>, !.ChannelID = << "D" >>,
        !.Tags = << << "x" >>, << "v" >> >>,
        !.Properties = (<< "k" >> :> << "v" >>) @@ (<< "i" >> :> << "u" >>),
        !.MaxMessageSize = 2 ]

\* a stored profile asking for a thread, passthrough and truncation
ThreadConfig ==
    [ StoredConfig EXCEPT
        !.ThreadName = << "h" >>, !.Passthrough = TRUE, !.Debug = TRUE,
        !.MessageMode = ModeTruncate, !.TagMode = ModeReplace,
        !.PropertyMode = ModeReplace, !.MaxMessageSize = 1 ]

\* a document holding some of the keys only
PartialDoc == ("channel_id" :> << "D" >>) @@ ("max_message_size" :> -1)

FileStates ==
    { Absent, Unreadable, Garbage, Yaml(Marshal(StoredConfig)),
      Yaml(Marshal(ThreadConfig)), Yaml(PartialDoc) }

\* what a pipe on stdin can hold: nothing, runs of 1 .. MaxStdin bytes, lines
PipedData ==
    { Repeat("a", n) : n \in 0 .. MaxStdin }
        \cup { << "a", NL >>, << NL, "b", "a" >> }

\* stdin is a terminal or a pipe
StdinStates ==
    { [ tty |-> TRUE, data |-> << >> ] }
        \cup { [ tty |-> FALSE, data |-> d ] : d \in PipedData }

\* the fields of CLI after NewCLI
ZeroFlags ==
    [ configName |-> DefaultProfile, token |-> << >>, channelID |-> << >>,
      serverID |-> << >>, username |-> << >>, tags |-> << >>,
      tagMode |-> << >>, properties |-> << >>, propertyMode |-> << >>,
      debug |-> FALSE, passthrough |-> FALSE, maxMessageSize |-> 0,
      messageMode |-> << >>, threadName |-> << >> ]

\* the state of a fresh process, before main's first statement
Fresh ==
    /\ runs = << >>
    /\ flags = ZeroFlags
    /\ stdinData = << >>
    /\ stdout = << >>
    /\ session = << >>
    /\ messages = << >>
    /\ starterID = << >>
    /\ threadID = << >>
    /\ idx = 0
    /\ calls = << >>
    /\ writes = 0
    /\ exitCode = -1
    /\ errMsg = ""

Init ==
    /\ args \in ArgsUpTo(MaxFlags) \cup { BadArgs }
    /\ stdin \in StdinStates
    /\ file \in { f \in [ Profiles -> FileStates ] :
                    f[OtherProfile] = Yaml(Marshal(ThreadConfig)) }
    /\ Fresh
    /\ config = ZeroConfig
    /\ pc = "parseFlags"

----------------------------------------------------------------------------
(* main, step by step.                                                     *)

\* fmt.Fprintf(os.Stderr, ...); os.Exit(code)
Exit(code, msg) ==
    /\ pc' = "exit"
    /\ exitCode' = code
    /\ errMsg' = msg

FlagValue(name, default) == IF name \in DOMAIN args THEN args[name] ELSE default

\* the flag definitions of parseFlags, with their defaults
parsedFlags ==
    [ configName |-> FlagValue("config", DefaultProfile),
      token |-> FlagValue("token", << >>),
      channelID |-> FlagValue("channel", << >>),
      serverID |-> FlagValue("server", << >>),
      username |-> FlagValue("username", << >>),
      tags |-> FlagValue("tags", << >>),
      tagMode |-> FlagValue("tag-mode", ModeMerge),
      properties |-> FlagValue("properties", << >>),
      propertyMode |-> FlagValue("property-mode", ModeMerge),
      debug |-> FlagValue("debug", FALSE),
      passthrough |-> FlagValue("passthrough", FALSE),
      maxMessageSize |-> FlagValue("max-size", DefaultMaxMessageSize),
      messageMode |-> FlagValue("message-mode", ModeSerialize),
      threadName |-> FlagValue("thread", << >>) ]

\* cli.parseFlags(os.Args[1:]); the flag set is flag.ExitOnError, so a
\* command line it rejects ends the process with status 2
ParseFlags ==
    /\ pc = "parseFlags"
    /\ IF DOMAIN args \subseteq DefinedFlags
       THEN /\ flags' = parsedFlags
            /\ pc' = "readStdin"
            /\ UNCHANGED << exitCode, errMsg >>
       ELSE /\ Exit(2, "flag provided but not defined")
            /\ UNCHANGED flags
    /\ UNCHANGED << runs, args, stdin, file, config, stdinData, stdout, session,
                    messages, starterID, threadID, idx, calls, writes >>

\* cli.readStdin(): Stat or ReadAll may fail; a terminal is not read
ReadStdin ==
    /\ pc = "readStdin"
    /\ \E ok \in BOOLEAN :
        IF ok
        THEN /\ stdinData' = IF stdin.tty THEN stdinData ELSE stdin.data
             /\ pc' = "loadConfig"
             /\ UNCHANGED << exitCode, errMsg >>
        ELSE /\ Exit(1, "Error reading stdin")
             /\ UNCHANGED stdinData
    /\ UNCHANGED << runs, args, stdin, file, flags, config, stdout, session,
                    messages, starterID, threadID, idx, calls, writes >>

configAfterFailedWrite_Installed(cfg) == DefaultConfig

\* createDefaultConfig returns the error of os.WriteFile before it reaches
\* c.config = defaultConfig
configAfterFailedWrite(cfg) == cfg

\* cli.loadConfig(), createDefaultConfig included
LoadConfig ==
    /\ pc = "loadConfig"
    /\ LET name == flags.configName
           f == file[name]
       IN  \/ \* os.MkdirAll fails: no profile can exist in the directory then
              /\ \A p \in Profiles : file[p].state \in { "absent", "unreadable" }
              /\ Exit(1, "Error loading config")
              /\ UNCHANGED << file, config, writes >>
           \/ \* no file: the default is written, then installed
              /\ f.state = "absent"
              /\ file' = [ file EXCEPT ![name] = Yaml(Marshal(DefaultConfig)) ]
              /\ writes' = writes + 1
              /\ config' = DefaultConfig
              /\ pc' = "mergeFlags"
              /\ UNCHANGED << exitCode, errMsg >>
           \/ \* no file, and os.WriteFile fails: nothing or a part is written
              /\ f.state = "absent"
              /\ \E left \in { Absent, Truncated } :
                    file' = [ file EXCEPT ![name] = left ]
              /\ writes' = writes + 1
              /\ Exit(1, "Error loading config")
              /\ config' = configAfterFailedWrite(config)
           \/ \* os.ReadFile fails, and not because the file does not exist
              /\ f.state = "unreadable"
              /\ Exit(1, "Error loading config")
              /\ UNCHANGED << file, config, writes >>
           \/ \* yaml.Unmarshal fails
              /\ f.state \in { "garbage", "truncated" }
              /\ Exit(1, "Error loading config")
              /\ UNCHANGED << file, config, writes >>
           \/ /\ f.state = "yaml"
              /\ config' = Unmarshal(f.doc, config)
              /\ pc' = "mergeFlags"
              /\ UNCHANGED << file, writes, exitCode, errMsg >>
    /\ UNCHANGED << runs, args, stdin, flags, stdinData, stdout, session, messages,
                    starterID, threadID, idx, calls >>

MergeFlags_Saves ==
    /\ pc = "mergeFlags"
    /\ config' \in mergeFlags(config, flags)
    /\ file' = [ file EXCEPT ![flags.configName] = Yaml(Marshal(config')) ]
    /\ writes' = writes + 1
    /\ pc' = "passthrough"
    /\ UNCHANGED << runs, args, stdin, flags, stdinData, stdout, session,
                    messages, starterID, threadID, idx, calls, exitCode,
                    errMsg >>

\* cli.mergeFlags()
MergeFlags ==
    /\ pc = "mergeFlags"
    /\ config' \in mergeFlags(config, flags)
    /\ pc' = "passthrough"
    /\ UNCHANGED << runs, args, stdin, file, flags, stdinData, stdout, session,
                    messages, starterID, threadID, idx, calls, writes,
                    exitCode, errMsg >>

passthroughOutput_Always(cfg, data) == data

\* what main writes to os.Stdout (the log lines of the debug mode go to
\* os.Stderr and are not modelled)
passthroughOutput(cfg, data) ==
    IF cfg.Passthrough /\ Len(data) > 0 THEN data ELSE << >>

\* main, lines 467-470
Passthrough ==
    /\ pc = "passthrough"
    /\ stdout' = stdout \o passthroughOutput(config, stdinData)
    /\ pc' = "send"
    /\ UNCHANGED << runs, args, stdin, file, flags, config, stdinData, session,
                    messages, starterID, threadID, idx, calls, writes,
                    exitCode, errMsg >>

----------------------------------------------------------------------------
(* sendToDiscord: each request to the Discord API is one step.             *)

\* the auto-archive duration of the thread, in minutes (src/disgo.go:350)
ThreadArchiveMinutes == 60

BotPrefix == << "B", "o", "t", " " >>
\* "U+1F4CC" stands for the bytes of the pushpin sign
StarterPrefix ==
    << "U+1F4CC", " ", "N", "e", "w", " ", "t", "h", "r", "e", "a", "d", ":", " " >>

\* the ids the API gives to the messages and threads it creates
MessageIDs == { << "1" >>, << "2" >> }
ThreadIDs == { << "8" >>, << "9" >> }

HasPrefix(s, prefix) ==
    Len(s) >= Len(prefix) /\ SubSeq(s, 1, Len(prefix)) = prefix

\* lines 320-323
sessionToken(token) ==
    IF HasPrefix(token, BotPrefix) THEN token ELSE BotPrefix \o token

\* fmt.Sprintf of the thread starter
threadStarter(name) == StarterPrefix \o name

\* discord.ChannelMessageSend(channel, content), its outcome and the id of
\* the message in the response
SendCall(channel, content, ok, id) ==
    [ op |-> "ChannelMessageSend", channel |-> channel, content |-> content,
      anchor |-> << >>, name |-> << >>, archive |-> 0, ok |-> ok, id |-> id ]

\* discord.MessageThreadStart(channel, anchor, name, archive)
ThreadCall(channel, anchor, name, archive, ok, id) ==
    [ op |-> "MessageThreadStart", channel |-> channel, content |-> << >>,
      anchor |-> anchor, name |-> name, archive |-> archive, ok |-> ok,
      id |-> id ]

sendPrecheck_NoEmptyCheck(cfg, data) ==
    IF cfg.Token = << >> THEN "discord token not configured"
    ELSE IF cfg.ChannelID = << >> THEN "discord channel ID not configured"
    ELSE "send"

sendPrecheck_InputFirst(cfg, data) ==
    IF Len(data) = 0 THEN "nothing to send"
    ELSE IF cfg.Token = << >> THEN "discord token not configured"
    ELSE IF cfg.ChannelID = << >> THEN "discord channel ID not configured"
    ELSE "send"

\* lines 309-318: what sendToDiscord decides before it creates the session
sendPrecheck(cfg, data) ==
    IF cfg.Token = << >> THEN "discord token not configured"
    ELSE IF cfg.ChannelID = << >> THEN "discord channel ID not configured"
    ELSE IF Len(data) = 0 THEN "nothing to send"
    ELSE "send"

\* sendToDiscord up to its first request: the checks, the session, the split
\* (the deferred discord.Close() closes a gateway connection that was never
\* opened, and the log lines of the debug mode go to os.Stderr: neither is
\* modelled)
SendToDiscord ==
    /\ pc = "send"
    /\ LET check == sendPrecheck(config, stdinData)
       IN  \/ /\ check \notin { "nothing to send", "send" }
              /\ Exit(1, check)
              /\ UNCHANGED << session, messages >>
           \/ /\ check = "nothing to send"
              /\ Exit(0, "")
              /\ UNCHANGED << session, messages >>
           \/ \* discordgo.New fails
              /\ check = "send"
              /\ Exit(1, "error creating Discord session")
              /\ UNCHANGED << session, messages >>
           \/ /\ check = "send"
              /\ session' = sessionToken(config.Token)
              /\ messages' = splitMessage(config, stdinData)
              /\ pc' = IF config.ThreadName # << >> THEN "starter" ELSE "parts"
              /\ UNCHANGED << exitCode, errMsg >>
    /\ UNCHANGED << runs, args, stdin, file, flags, config, stdinData, stdout,
                    starterID, threadID, idx, calls, writes >>

\* lines 343-347: the thread starter message
SendThreadStarter ==
    /\ pc = "starter"
    /\ \/ \E id \in MessageIDs :
            /\ calls' = Append(calls,
                   SendCall(config.ChannelID, threadStarter(config.ThreadName), TRUE, id))
            /\ starterID' = id
            /\ pc' = "thread"
            /\ UNCHANGED << exitCode, errMsg >>
       \/ /\ calls' = Append(calls,
                 SendCall(config.ChannelID, threadStarter(config.ThreadName), FALSE, << >>))
          /\ Exit(1, "error sending thread starter")
          /\ UNCHANGED starterID
    /\ UNCHANGED << runs, args, stdin, file, flags, config, stdinData, stdout,
                    session, messages, threadID, idx, writes >>

\* lines 350-354: the thread, anchored to the starter message
StartThread ==
    /\ pc = "thread"
    /\ \/ \E id \in ThreadIDs :
            /\ calls' = Append(calls,
                   ThreadCall(config.ChannelID, starterID, config.ThreadName,
                              ThreadArchiveMinutes, TRUE, id))
            /\ threadID' = id
            /\ pc' = "parts"
            /\ UNCHANGED << exitCode, errMsg >>
       \/ /\ calls' = Append(calls,
                 ThreadCall(config.ChannelID, starterID, config.ThreadName,
                            ThreadArchiveMinutes, FALSE, << >>))
          /\ Exit(1, "error creating thread")
          /\ UNCHANGED threadID
    /\ UNCHANGED << runs, args, stdin, file, flags, config, stdinData, stdout,
                    session, messages, starterID, idx, writes >>

targetChannel_Channel(cfg, tid) == cfg.ChannelID

\* lines 372-375
targetChannel(cfg, tid) == IF tid # << >> THEN tid ELSE cfg.ChannelID

SendMessagePart_IgnoreError ==
    /\ pc = "parts"
    /\ idx < Len(messages)
    /\ \E ok \in BOOLEAN :
          calls' = Append(calls,
              SendCall(targetChannel(config, threadID), messages[idx + 1], ok, << >>))
    /\ idx' = idx + 1
    /\ UNCHANGED << runs, args, stdin, file, flags, config, stdinData, stdout,
                    session, messages, starterID, threadID, writes, pc,
                    exitCode, errMsg >>

\* one iteration of the loop of lines 367-381
SendMessagePart ==
    /\ pc = "parts"
    /\ idx < Len(messages)
    /\ \/ /\ calls' = Append(calls,
                 SendCall(targetChannel(config, threadID), messages[idx + 1], TRUE, << >>))
          /\ idx' = idx + 1
          /\ UNCHANGED << pc, exitCode, errMsg >>
       \/ /\ calls' = Append(calls,
                 SendCall(targetChannel(config, threadID), messages[idx + 1], FALSE, << >>))
          /\ Exit(1, "error sending message part")
          /\ UNCHANGED idx
    /\ UNCHANGED << runs, args, stdin, file, flags, config, stdinData, stdout,
                    session, messages, starterID, threadID, writes >>

\* the loop is over: sendToDiscord returns nil and main ends
SendDone ==
    /\ pc = "parts"
    /\ idx = Len(messages)
    /\ Exit(0, "")
    /\ UNCHANGED << runs, args, stdin, file, flags, config, stdinData, stdout,
                    session, messages, starterID, threadID, idx, calls, writes >>

Next ==
    \/ ParseFlags
    \/ ReadStdin
    \/ LoadConfig
    \/ MergeFlags
    \/ Passthrough
    \/ SendToDiscord
    \/ SendThreadStarter
    \/ StartThread
    \/ SendMessagePart
    \/ SendDone

Spec == Init /\ [][Next]_vars

----------------------------------------------------------------------------
(* The segmenter alone: splitMessage applied to a content under a          *)
(* configured size and mode.                                               *)

SplitAlphabet == { "a", "b", NL }

\* the message modes tried: the two the program names, none, and a typo
SplitModes == { ModeSerialize, ModeTruncate, << >>, << "s", "e", "r" >> }

\* the configured sizes tried with the short contents
SmallSizes == { -1, 0, 1, 2, 3, DefaultMaxMessageSize }

\* the configured sizes tried with the long contents (the limit is 2000)
DefaultSizes == { -1, 0, DefaultMaxMessageSize }

\* contents around one and two times the default limit: a run of "a"
\* between a short prefix and a short suffix that may hold newlines
LongContents ==
    { pre \o Repeat("a", n) \o suf :
        pre \in SeqsUpTo(Alphabet, 2),
        suf \in SeqsUpTo(Alphabet, 2),
        n \in ((DefaultMaxMessageSize - PadSlack) .. (DefaultMaxMessageSize + PadSlack))
                \cup { 2 * DefaultMaxMessageSize + PadSlack } }

SplitInputs ==
    (SeqsUpTo(SplitAlphabet, MaxLen) \X SmallSizes) \cup (LongContents \X DefaultSizes)

InitSplit ==
    /\ args = NoFlag
    /\ file = [ p \in Profiles |-> Absent ]
    /\ Fresh
    /\ \E inp \in SplitInputs, mode \in SplitModes :
          /\ stdin = [ tty |-> FALSE, data |-> inp[1] ]
          /\ config = [ DefaultConfig EXCEPT !.MaxMessageSize = inp[2],
                                             !.MessageMode = mode ]
    /\ pc = "split"

\* messages := c.splitMessage(content)
SplitMessage ==
    /\ pc = "split"
    /\ messages' = splitMessage(config, stdin.data)
    /\ pc' = "split done"
    /\ UNCHANGED << runs, args, stdin, file, flags, config, stdinData, stdout,
                    session, starterID, threadID, idx, calls, writes,
                    exitCode, errMsg >>

NextSplit == SplitMessage

SpecSplit == InitSplit /\ [][NextSplit]_vars

----------------------------------------------------------------------------
(* Properties of the segmenter, checked under SpecSplit.                   *)

\* the content splitMessage was applied to
Content == stdin.data

\* the limit the specification gives: the configured size when positive,
\* else 2000
EffectiveMax ==
    IF config.MaxMessageSize > 0 THEN config.MaxMessageSize ELSE 2000

SplitDone == pc = "split done"

\* C1: in serialize mode the chunks, concatenated in order, are the content:
\* no byte is added, dropped or reordered.
C1_SerializeLossless ==
    (SplitDone /\ config.MessageMode = ModeSerialize)
        => Concat(messages) = Content

\* a serialize split into three chunks or more, one of them cut at a newline
C1_Witness ==
    /\ SplitDone
    /\ config.MessageMode = ModeSerialize
    /\ Len(messages) >= 3
    /\ \E i \in 1 .. (Len(messages) - 1) :
          /\ Len(messages[i]) < EffectiveMax
          /\ messages[i][Len(messages[i])] = NL

\* C2: every chunk is at most the effective max size long, for every
\* configured size (positive, zero, negative) and every mode.
C2_ChunksWithinLimit ==
    SplitDone => \A i \in 1 .. Len(messages) : Len(messages[i]) <= EffectiveMax

\* a content over 2000 bytes split under a configured size <= 0
C2_Witness ==
    /\ SplitDone
    /\ config.MaxMessageSize <= 0
    /\ Len(Content) > 2000
    /\ Len(messages) >= 2
    /\ \E i \in 1 .. Len(messages) : Len(messages[i]) = 2000

\* C8: a configured size <= 0 gives the chunks of the size 2000, and
\* getEffectiveMaxMessageSize is 2000 for a size <= 0, the size otherwise.
C8_NonPositiveSizeIsDefault ==
    SplitDone =>
        /\ config.MaxMessageSize <= 0 =>
              /\ getEffectiveMaxMessageSize(config) = 2000
              /\ messages = splitMessage([ config EXCEPT !.MaxMessageSize = 2000 ], Content)
        /\ config.MaxMessageSize > 0 =>
              getEffectiveMaxMessageSize(config) = config.MaxMessageSize

\* a negative size and a content that the limit of 2000 cuts into chunks
C8_Witness ==
    /\ SplitDone
    /\ config.MaxMessageSize < 0
    /\ config.MessageMode = ModeSerialize
    /\ Len(messages) = 3
    /\ Len(messages[1]) \in 2 .. 1999

\* C9: a content no longer than the effective max size comes back as the
\* one-element sequence [content], whatever the mode.
C9_ShortContentUnsplit ==
    (SplitDone /\ Len(Content) <= EffectiveMax) => messages = << Content >>

\* a content exactly as long as the limit, with a newline, under a mode the
\* program does not name
C9_Witness ==
    /\ SplitDone
    /\ Len(Content) = EffectiveMax
    /\ config.MessageMode \notin { ModeSerialize, ModeTruncate }
    /\ \E i \in 1 .. Len(Content) : Content[i] = NL
    /\ messages = << Content >>

\* C10: in truncate mode a content longer than the effective max size gives
\* one chunk, the first EffectiveMax bytes of the content.
C10_TruncateIsPrefix ==
    (SplitDone /\ config.MessageMode = ModeTruncate /\ Len(Content) > EffectiveMax)
        => /\ Len(messages) = 1
           /\ Len(messages[1]) = EffectiveMax
           /\ \A i \in 1 .. EffectiveMax : messages[1][i] = Content[i]

\* a truncation that cuts a content of several lines
C10_Witness ==
    /\ SplitDone
    /\ config.MessageMode = ModeTruncate
    /\ Len(Content) > EffectiveMax + 1
    /\ Content[EffectiveMax] = NL
    /\ Len(messages) = 1

----------------------------------------------------------------------------
(* Properties of a run, checked under Spec.                                *)

\* main has reached sendToDiscord: config is the effective Settings
DeliveryReached ==
    \/ pc \in { "send", "starter", "thread", "parts" }
    \/ /\ pc = "exit"
       /\ exitCode \in { 0, 1 }
       /\ errMsg \notin { "Error reading stdin", "Error loading config" }

\* sendToDiscord has returned
Delivered == pc = "exit" /\ DeliveryReached

UsesThread == config.ThreadName # << >>

\* the number of requests that come before the chunks
ThreadCalls == IF UsesThread THEN 2 ELSE 0

\* C3: the requests are issued in order (thread starter, thread creation,
\* chunk 1 .. n), each at most once; a request that fails is the last one of
\* the run, which ends with a fatal error.
C3_OrderedAbortOnFailure ==
    /\ Len(calls) <= ThreadCalls + Len(messages)
    /\ \A k \in 1 .. Len(calls) :
          /\ (UsesThread /\ k = 1) =>
                /\ calls[k].op = "ChannelMessageSend"
                /\ calls[k].content = threadStarter(config.ThreadName)
          /\ (UsesThread /\ k = 2) => calls[k].op = "MessageThreadStart"
          /\ k > ThreadCalls =>
                /\ calls[k].op = "ChannelMessageSend"
                /\ calls[k].content = messages[k - ThreadCalls]
          /\ k < Len(calls) => calls[k].ok
          /\ ~calls[k].ok => (pc = "exit" /\ exitCode = 1 /\ errMsg # "")
    /\ (Delivered /\ exitCode = 0) =>
          \/ calls = << >> /\ Len(stdinData) = 0
          \/ /\ Len(calls) = ThreadCalls + Len(messages)
             /\ \A k \in 1 .. Len(calls) : calls[k].ok

\* a thread run of three chunks whose second chunk fails
C3_Witness ==
    /\ pc = "exit"
    /\ UsesThread
    /\ Len(messages) = 3
    /\ Len(calls) = 4
    /\ calls[3].ok
    /\ ~calls[4].ok

\* C4: with a thread name, one notification goes to the channel, the thread
\* is created on the channel, anchored to the notification's id and named
\* threadName, and every chunk goes to the thread's id, none to the channel;
\* without a thread name every request is a chunk posted to the channel.
C4_ThreadRouting ==
    /\ UsesThread =>
          /\ \A k \in 1 .. Len(calls) :
                /\ k = 1 => calls[k] = SendCall(config.ChannelID,
                                threadStarter(config.ThreadName), calls[k].ok, calls[k].id)
                /\ k = 2 => calls[k] = ThreadCall(config.ChannelID, calls[1].id,
                                config.ThreadName, 60, calls[k].ok, calls[k].id)
                /\ k > 2 =>
                      /\ calls[k].op = "ChannelMessageSend"
                      /\ calls[k].channel = calls[2].id
                      /\ calls[k].channel # config.ChannelID
                      /\ calls[k].content = messages[k - 2]
          /\ (Delivered /\ exitCode = 0 /\ Len(stdinData) > 0) =>
                Len(calls) = 2 + Len(messages)
    /\ ~UsesThread =>
          /\ \A k \in 1 .. Len(calls) :
                /\ calls[k].op = "ChannelMessageSend"
                /\ calls[k].channel = config.ChannelID
                /\ calls[k].content = messages[k]
          /\ (Delivered /\ exitCode = 0 /\ Len(stdinData) > 0) =>
                Len(calls) = Len(messages)

\* a successful thread run of two chunks or more
C4_Witness ==
    /\ Delivered
    /\ exitCode = 0
    /\ UsesThread
    /\ Len(messages) >= 2
    /\ Len(calls) = 2 + Len(messages)
    /\ calls[Len(calls)].channel = threadID

\* C5: with passthrough on and a non-empty input, stdout holds exactly the
\* input, written once and before any request, whatever the outcome of the
\* delivery; with passthrough off stdout stays empty and the input is held.
C5_PassthroughEcho ==
    /\ ~DeliveryReached => (stdout = << >> /\ calls = << >>)
    /\ pc = "send" => calls = << >>
    /\ DeliveryReached =>
          /\ (config.Passthrough /\ Len(stdinData) > 0) => stdout = stdinData
          /\ ~config.Passthrough =>
                /\ stdout = << >>
                /\ ~stdin.tty => stdinData = stdin.data
          /\ Len(stdinData) = 0 => stdout = << >>

\* the echo stands although a post failed
C5_Witness ==
    /\ Delivered
    /\ exitCode = 1
    /\ config.Passthrough
    /\ Len(calls) >= 2
    /\ ~calls[Len(calls)].ok
    /\ Len(stdout) >= 2
    /\ stdout = stdinData

\* C6 as claimed: with a zero-length input sendToDiscord posts nothing,
\* creates no thread and returns without error, for every effective Settings.
C6_EmptyInputNoError ==
    (Delivered /\ Len(stdinData) = 0) => (calls = << >> /\ exitCode = 0)

\* C6 amended: with a zero-length input sendToDiscord posts nothing and
\* creates no thread for every effective Settings; it returns without error
\* when the token and the channel id are both set, and with the
\* missing-credential error otherwise.
C6_EmptyInputNoDelivery ==
    (DeliveryReached /\ Len(stdinData) = 0) =>
        /\ calls = << >>
        /\ session = << >>
        /\ pc = "exit" =>
              IF config.Token # << >> /\ config.ChannelID # << >>
              THEN exitCode = 0 /\ errMsg = ""
              ELSE exitCode = 1 /\ errMsg # ""

\* an empty pipe and a thread name: the run ends well with no request made
C6_Witness ==
    /\ Delivered
    /\ ~stdin.tty
    /\ Len(stdinData) = 0
    /\ UsesThread
    /\ exitCode = 0
    /\ calls = << >>

\* C7: with an empty token or an empty channel id sendToDiscord returns an
\* error, the process exits non-zero, and no request is made.
C7_MissingCredentialFatal ==
    (DeliveryReached /\ (config.Token = << >> \/ config.ChannelID = << >>)) =>
        /\ calls = << >>
        /\ session = << >>
        /\ pc \in { "send", "exit" }
        /\ pc = "exit" =>
              /\ exitCode = 1
              /\ errMsg \in { "discord token not configured",
                              "discord channel ID not configured" }

\* a token, no channel id, an input to send: the run fails before any request
C7_Witness ==
    /\ Delivered
    /\ config.Token # << >>
    /\ config.ChannelID = << >>
    /\ Len(stdinData) > 0
    /\ exitCode = 1
    /\ calls = << >>

-----------------------------------------------------------------------------
(* The message mode that is neither of the two names, checked under        *)
(* SpecSplit.                                                              *)

UnknownMode == config.MessageMode \notin { ModeTruncate, ModeSerialize }

\* C11: for a message mode other than exactly "truncate" or "serialize"
\* (the empty string included) splitMessage returns what it returns in
\* truncate mode; a content longer than the limit gives exactly one chunk,
\* of length at most the limit.
C11_UnknownModeTruncates ==
    (SplitDone /\ UnknownMode) =>
        /\ messages = splitMessage([ config EXCEPT !.MessageMode = ModeTruncate ],
                                   Content)
        /\ Len(Content) > EffectiveMax =>
              /\ Len(messages) = 1
              /\ Len(messages[1]) <= EffectiveMax
              /\ messages[1] = SubSeq(Content, 1, EffectiveMax)

\* a misspelt mode and a content of several lines longer than the limit,
\* which serialize mode would have cut in more than one chunk
C11_Witness ==
    /\ SplitDone
    /\ config.MessageMode = << "s", "e", "r" >>
    /\ Len(Content) > EffectiveMax
    /\ \E i \in 1 .. Len(Content) : Content[i] = NL
    /\ Len(messages) = 1
    /\ Len(messages[1]) = EffectiveMax

-----------------------------------------------------------------------------
(* mergeFlags alone: the CLI fields are set as parseFlags or a caller of   *)
(* the method sets them, the configuration is a persisted one just loaded. *)

MaxOverrides == 2

\* values a field of CLI can hold when mergeFlags is called
FieldOptions ==
    { "token" :> << "T" >>,
      "channelID" :> << "C" >>,
      "serverID" :> << "S" >>,
      "username" :> << "U" >>,
      "threadName" :> << "t" >>,
      "debug" :> TRUE,
      "passthrough" :> TRUE,
      "tagMode" :> ModeMerge,
      "tagMode" :> ModeReplace,
      "tagMode" :> << >>,
      "tagMode" :> << "z" >>,
      "propertyMode" :> ModeMerge,
      "propertyMode" :> ModeReplace,
      "propertyMode" :> << >>,
      "propertyMode" :> << "z" >>,
      "messageMode" :> ModeSerialize,
      "messageMode" :> ModeTruncate,
      "messageMode" :> << >>,
      "maxMessageSize" :> DefaultMaxMessageSize,
      "maxMessageSize" :> 0,
      "maxMessageSize" :> -1,
      "maxMessageSize" :> 5,
      "tags" :> << "x", ",", " ", "y" >>,
      "tags" :> << "a", ",", "a" >>,
      "tags" :> << "," >>,
      "properties" :> << "k", ":", "w", ";", "j" >>,
      "properties" :> << "u", ":", "h", ":", "x" >>,
      "properties" :> << " ", "n", " ", ":", " ", "m" >>,
      "properties" :> << "k", ":", "w", ";", "k", ":", "z" >>,
      "properties" :> << "j", ";" >> }

\* the settings of at most n distinct fields
RECURSIVE FieldsUpTo(_)
FieldsUpTo(n) ==
    IF n = 0 THEN { NoFlag }
    ELSE LET fewer == FieldsUpTo(n - 1)
         IN  fewer \cup
             { fo[1] @@ fo[2] :
                 fo \in { x \in fewer \X FieldOptions :
                            DOMAIN x[1] \cap DOMAIN x[2] = {} } }

\* the fields of CLI after parseFlags of an empty command line
DefaultFlags ==
    [ ZeroFlags EXCEPT
        !.tagMode = ModeMerge, !.propertyMode = ModeMerge,
        !.maxMessageSize = DefaultMaxMessageSize,
        !.messageMode = ModeSerialize ]

\* the CLI records mergeFlags is called on
MergeInputs ==
    { [ f \in DOMAIN base |-> IF f \in DOMAIN set THEN set[f] ELSE base[f] ] :
        base \in { ZeroFlags, DefaultFlags }, set \in FieldsUpTo(MaxOverrides) }

\* the configurations loadConfig leaves
LoadedConfigs ==
    { StoredConfig, ThreadConfig, DefaultConfig, Unmarshal(PartialDoc, ZeroConfig) }

InitMerge ==
    /\ runs = << >>
    /\ args = NoFlag
    /\ stdin = [ tty |-> FALSE, data |-> << "a" >> ]
    /\ stdinData = << "a" >>
    /\ config \in LoadedConfigs
    /\ file = [ p \in Profiles |->
                  IF p = DefaultProfile THEN Yaml(Marshal(config))
                  ELSE Yaml(Marshal(ThreadConfig)) ]
    /\ flags \in MergeInputs
    /\ stdout = << >>
    /\ session = << >>
    /\ messages = << >>
    /\ starterID = << >>
    /\ threadID = << >>
    /\ idx = 0
    /\ calls = << >>
    /\ writes = 0
    /\ exitCode = -1
    /\ errMsg = ""
    /\ pc = "mergeFlags"

NextMerge == MergeFlags

SpecMerge == InitMerge /\ [][NextMerge]_vars

\* the configuration loadConfig read from the profile's file (the file
\* written by createDefaultConfig when there was none)
Persisted == Unmarshal(file[flags.configName].doc, ZeroConfig)

\* mergeFlags has returned: config is the effective Settings
Merged == pc = "passthrough"

-----------------------------------------------------------------------------
(* Properties of mergeFlags, checked under SpecMerge.                      *)

\* the string fields of CLI and the fields of Config they override
ScalarFields ==
    { << "token", "Token" >>, << "channelID", "ChannelID" >>,
      << "serverID", "ServerID" >>, << "username", "Username" >>,
      << "threadName", "ThreadName" >>, << "messageMode", "MessageMode" >>,
      << "tagMode", "TagMode" >>, << "propertyMode", "PropertyMode" >> }

\* C12: for each scalar field (token, channelId, serverId, username,
\* threadName, messageMode, tagMode, propertyMode) the effective value is the
\* override when the override is non-empty, else the persisted value, an
\* empty persisted value staying empty.
C12_ScalarOverride ==
    Merged =>
        \A sf \in ScalarFields :
            config[sf[2]] = IF flags[sf[1]] # << >> THEN flags[sf[1]]
                            ELSE Persisted[sf[2]]

\* a token that replaces the persisted one, while the empty thread name
\* stays empty and the persisted modes stay in force
C12_Witness ==
    /\ Merged
    /\ flags.token # << >>
    /\ Persisted.Token # << >>
    /\ config.Token = flags.token
    /\ config.Token # Persisted.Token
    /\ flags.threadName = << >> /\ config.ThreadName = << >>
    /\ flags.messageMode = << >>
    /\ config.MessageMode = ModeSerialize

-----------------------------------------------------------------------------
(* parseFlags followed by mergeFlags, checked under Spec.                  *)

\* C13: an invocation that supplies no --tag-mode, --property-mode or
\* --message-mode flag does not override: after parseFlags and mergeFlags the
\* effective tagMode, propertyMode and messageMode are the persisted ones.
C13_UnsetModesKeepPersisted ==
    Merged =>
        /\ "tag-mode" \notin DOMAIN args => config.TagMode = Persisted.TagMode
        /\ "property-mode" \notin DOMAIN args =>
              config.PropertyMode = Persisted.PropertyMode
        /\ "message-mode" \notin DOMAIN args =>
              config.MessageMode = Persisted.MessageMode

-----------------------------------------------------------------------------
(* More properties of mergeFlags, checked under SpecMerge.                 *)

\* C14: for debug and passthrough the effective value is true when the
\* override is true, and a persisted true is never changed to false:
\* effective = persisted OR override.
C14_BooleansSticky ==
    Merged =>
        /\ config.Debug = (Persisted.Debug \/ flags.debug)
        /\ config.Passthrough = (Persisted.Passthrough \/ flags.passthrough)

\* a persisted debug and passthrough survive a call whose overrides are
\* false, one of them at least
C14_Witness ==
    /\ Merged
    /\ Persisted.Debug /\ Persisted.Passthrough
    /\ ~flags.debug
    /\ config.Debug /\ config.Passthrough

\* C15: the persisted maxMessageSize is replaced by the override exactly
\* when the override differs from the compiled-in default 2000 (overrides
\* <= 0 included); an override of 2000 leaves the persisted value unchanged.
C15_MaxSizeSentinel ==
    Merged =>
        config.MaxMessageSize =
            IF flags.maxMessageSize # 2000 THEN flags.maxMessageSize
            ELSE Persisted.MaxMessageSize

\* an override of -1 replaces a persisted positive size
C15_Witness ==
    /\ Merged
    /\ flags.maxMessageSize = -1
    /\ Persisted.MaxMessageSize > 0
    /\ config.MaxMessageSize = -1

NoDuplicates(s) == \A i, j \in DOMAIN s : s[i] = s[j] => i = j

\* the mode the tags (the properties) were handled in: TagMode and
\* PropertyMode are merged before the collections are
TagsMerged == flags.tags # << >> /\ config.TagMode # ModeReplace
TagsReplaced == flags.tags # << >> /\ config.TagMode = ModeReplace
PropertiesMerged == flags.properties # << >> /\ config.PropertyMode # ModeReplace
PropertiesReplaced == flags.properties # << >> /\ config.PropertyMode = ModeReplace

\* C16: in merge mode (every mode but replace) with a non-empty incoming tag
\* string the resulting tags are, as a set, the union of the existing tags
\* and the trimmed incoming tags, each tag held once.
C16_TagsMergeIsUnion ==
    (Merged /\ TagsMerged) =>
        /\ Range(config.Tags) =
              Range(Persisted.Tags)
                \cup { TrimSpace(t) : t \in Range(stringsSplit(flags.tags, ",")) }
        /\ NoDuplicates(config.Tags)

\* {x, v} merged with "x, y" gives the three tags x, v and y, here in an
\* order that is not the order of insertion
C16_Witness ==
    /\ Merged
    /\ config.TagMode = ModeMerge
    /\ Persisted.Tags = << << "x" >>, << "v" >> >>
    /\ flags.tags = << "x", ",", " ", "y" >>
    /\ Len(config.Tags) = 3
    /\ Range(config.Tags) = { << "x" >>, << "v" >>, << "y" >> }
    /\ config.Tags[1] = << "y" >>

\* the mode in force for a collection: the flag of this call when it is
\* set, else the persisted mode
GoverningMode(flagMode, persistedMode) ==
    IF flagMode # << >> THEN flagMode ELSE persistedMode

\* the incoming tag string, cut at the commas, each piece trimmed
IncomingTags ==
    LET pieces == stringsSplit(flags.tags, ",")
    IN  [ i \in DOMAIN pieces |-> TrimSpace(pieces[i]) ]

\* C17: in replace mode with a non-empty incoming string the resulting tags
\* (resp. properties) are exactly the parsed incoming collection, nothing of
\* the existing collection surviving; the mode in force is the one of this
\* call's --tag-mode / --property-mode.
C17_ReplaceIsIncoming ==
    Merged =>
        /\ config.TagMode = GoverningMode(flags.tagMode, Persisted.TagMode)
        /\ config.PropertyMode =
              GoverningMode(flags.propertyMode, Persisted.PropertyMode)
        /\ TagsReplaced => config.Tags = IncomingTags
        /\ PropertiesReplaced =>
              config.Properties = parseProperties(flags.properties)

\* a call in replace mode on a profile persisted in merge mode: the two
\* persisted tags are gone, the incoming "a,a" is what is left
C17_Witness ==
    /\ Merged
    /\ Persisted.TagMode = ModeMerge
    /\ flags.tagMode = ModeReplace
    /\ Len(Persisted.Tags) = 2
    /\ flags.tags = << "a", ",", "a" >>
    /\ config.Tags = << << "a" >>, << "a" >> >>

\* C18: in merge mode the resulting property map holds every parsed incoming
\* key with the incoming value, every existing key that is not incoming with
\* its existing value, and no other key.
C18_PropertiesMergeIncomingWins ==
    (Merged /\ PropertiesMerged) =>
        LET incoming == parseProperties(flags.properties)
        IN  /\ DOMAIN config.Properties =
                  DOMAIN incoming \cup DOMAIN Persisted.Properties
            /\ \A k \in DOMAIN incoming : config.Properties[k] = incoming[k]
            /\ \A k \in DOMAIN Persisted.Properties \ DOMAIN incoming :
                  config.Properties[k] = Persisted.Properties[k]

\* {k: v, i: u} merged with "k:w;j": k takes the incoming w, i keeps u
C18_Witness ==
    /\ Merged
    /\ PropertiesMerged
    /\ flags.properties = << "k", ":", "w", ";", "j" >>
    /\ DOMAIN Persisted.Properties = { << "k" >>, << "i" >> }
    /\ DOMAIN config.Properties = { << "k" >>, << "i" >> }
    /\ Persisted.Properties[<< "k" >>] = << "v" >>
    /\ config.Properties[<< "k" >>] = << "w" >>
    /\ config.Properties[<< "i" >>] = << "u" >>

\* a pair cut at its first colon, key and value trimmed
cutFirstColon(pair) ==
    LET p == TrimSpace(pair)
        at == { i \in 1 .. Len(p) : p[i] = ":" }
        i == CHOOSE k \in at : \A j \in at : k <= j
    IN  << TrimSpace(SubSeq(p, 1, i - 1)), TrimSpace(SubSeq(p, i + 1, Len(p))) >>

\* the map of the pairs cut at their first colon, a pair without a colon
\* being dropped
RECURSIVE firstColonPairs(_, _)
firstColonPairs(pairs, props) ==
    IF pairs = << >> THEN props
    ELSE firstColonPairs(Tail(pairs),
             IF ":" \in Range(Head(pairs))
             THEN LET kv == cutFirstColon(Head(pairs))
                  IN  (kv[1] :> kv[2]) @@ props
             ELSE props)

\* C19 as claimed: parseProperties splits each semicolon-separated pair on
\* its first colon only, so that a pair whose value holds a colon gives the
\* key before the first colon and, as value, all that follows it, both
\* trimmed. Read off the properties that replace mode installs.
C19_SplitOnFirstColon ==
    (Merged /\ PropertiesReplaced) =>
        config.Properties =
            firstColonPairs(stringsSplit(flags.properties, ";"), << >>)

\* C20 as claimed: the effective tags produced from a duplicate-free
\* persisted tag list hold no string twice, in merge mode and in replace
\* mode, for every incoming tag string.
C20_TagsDuplicateFree ==
    (Merged /\ NoDuplicates(Persisted.Tags)) => NoDuplicates(config.Tags)

\* C21: an empty incoming tag string is a no-op in every tag mode (merge,
\* replace or unrecognized): the existing tags are left as they are; an
\* empty incoming property string likewise leaves the existing properties.
C21_EmptyIncomingNoOp ==
    Merged =>
        /\ flags.tags = << >> => config.Tags = Persisted.Tags
        /\ flags.properties = << >> => config.Properties = Persisted.Properties

\* a call in replace mode with neither tags nor properties, on a profile
\* that holds two of each: both collections are kept, in their order
C21_Witness ==
    /\ Merged
    /\ flags.tags = << >> /\ flags.properties = << >>
    /\ flags.tagMode = ModeReplace
    /\ config.TagMode = ModeReplace /\ config.PropertyMode = ModeReplace
    /\ Len(Persisted.Tags) = 2
    /\ config.Tags = Persisted.Tags
    /\ Cardinality(DOMAIN config.Properties) = 2
    /\ config.Properties = Persisted.Properties

\* C22: for every effective tagMode or propertyMode that is not exactly
\* "replace" (merge, empty or unrecognized) the tags and the properties are
\* combined exactly as in merge mode.
C22_NotReplaceIsMerge ==
    Merged =>
        /\ config.TagMode # ModeReplace =>
              config.Tags \in
                  mergedTags([ Persisted EXCEPT !.TagMode = ModeMerge ], flags)
        /\ config.PropertyMode # ModeReplace =>
              config.Properties =
                  mergedProperties([ Persisted EXCEPT !.PropertyMode = ModeMerge ],
                                   flags)

\* an unrecognized tag mode: the incoming "x, y" joins the persisted x and v
C22_Witness ==
    /\ Merged
    /\ config.TagMode = << "z" >>
    /\ flags.tags = << "x", ",", " ", "y" >>
    /\ Persisted.Tags = << << "x" >>, << "v" >> >>
    /\ Range(config.Tags) = { << "x" >>, << "v" >>, << "y" >> }
    /\ Len(config.Tags) = 3

\* the incoming property string is not empty and none of its pairs holds a
\* colon
NoPairWellFormed ==
    /\ flags.properties # << >>
    /\ \A pair \in Range(stringsSplit(flags.properties, ";")) :
          ":" \notin Range(pair)

\* C29: malformed property pairs cause no error and contribute no key: in
\* replace mode a non-empty incoming string without a well-formed pair gives
\* an empty property map, in merge mode it leaves the existing properties
\* as they are.
C29_MalformedPairsDropped ==
    (Merged /\ NoPairWellFormed) =>
        /\ exitCode = -1 /\ errMsg = ""
        /\ config.Properties =
              IF config.PropertyMode = ModeReplace THEN << >>
              ELSE Persisted.Properties

\* "j;" in replace mode on a profile holding two properties: none is left
C29_Witness ==
    /\ Merged
    /\ flags.properties = << "j", ";" >>
    /\ config.PropertyMode = ModeReplace
    /\ Cardinality(DOMAIN Persisted.Properties) = 2
    /\ config.Properties = << >>

-----------------------------------------------------------------------------
(* The steps of the serialize loop, read off its result; checked under     *)
(* SpecSplit.                                                              *)

Serialized == SplitDone /\ config.MessageMode = ModeSerialize

\* what is left of the content when chunk i is cut
Rest(i) ==
    SubSeq(Content, Len(Concat(SubSeq(messages, 1, i - 1))) + 1, Len(Content))

\* the first min(EffectiveMax, length) bytes of what is left
Candidate(rest) == SubSeq(rest, 1, Min(EffectiveMax, Len(rest)))

\* the positions of the newlines of s that are not its first byte
InnerNewlines(s) == { k \in 2 .. Len(s) : s[k] = NL }

EndsWithNL(s) == s # << >> /\ s[Len(s)] = NL

\* the chunk the step is to emit from what is left
ExpectedChunk(rest) ==
    LET cand == Candidate(rest)
        inner == InnerNewlines(cand)
    IN  IF Len(cand) < Len(rest) /\ inner # {}
        THEN SubSeq(cand, 1, CHOOSE k \in inner : \A j \in inner : j <= k)
        ELSE cand

\* C26: in serialize mode each step takes a candidate of min(effectiveMax,
\* remaining length) bytes; when the candidate is not all that remains and
\* holds a newline at an index > 0, the chunk ends just after the last
\* newline of the candidate; otherwise the chunk is the whole candidate.
C26_StepCutsAtLastNewline ==
    Serialized =>
        \A i \in 1 .. Len(messages) : messages[i] = ExpectedChunk(Rest(i))

\* a step whose candidate holds two newlines, the first as its first byte:
\* the chunk ends after the second one, short of the limit, and the step
\* that follows emits all that is left
C26_Witness ==
    /\ Serialized
    /\ Len(messages) >= 2
    /\ \E i \in 1 .. Len(messages) - 1 :
          /\ Len(messages[i]) < EffectiveMax
          /\ Len(messages[i]) >= 2
          /\ messages[i][1] = NL
          /\ EndsWithNL(messages[i])
    /\ messages[Len(messages)] = Candidate(Rest(Len(messages)))

C28_NonFinalChunkShape ==
    Serialized =>
        \A i \in 1 .. Len(messages) - 1 :
            /\ EndsWithNL(messages[i]) \/ InnerNewlines(messages[i]) = {}
            /\ Len(messages[i]) < EffectiveMax => EndsWithNL(messages[i])

\* a first chunk cut short after a newline, then a chunk of the full size
\* that is a hard split, with more to follow
C28_Witness ==
    /\ Serialized
    /\ Len(messages) >= 3
    /\ Len(messages[1]) < EffectiveMax
    /\ EndsWithNL(messages[1])
    /\ Len(messages[2]) = EffectiveMax
    /\ ~EndsWithNL(messages[2])

-----------------------------------------------------------------------------
(* loadConfig in a run of main, checked under Spec.                        *)

\* the profile's file as it is now
ProfileFile == file[flags.configName]

\* loadConfig has just returned from a cold start: it wrote the file
ColdLoaded == pc = "mergeFlags" /\ writes = 1

\* what a loadConfig of the file as it is now gives, c.config being cfg
Reloaded(cfg) == Unmarshal(ProfileFile.doc, cfg)

C24_WriteOnlyOnColdStart ==
    [][ (writes' # writes \/ file' # file) =>
            /\ pc = "loadConfig"
            /\ ProfileFile.state = "absent"
            /\ writes = 0
            /\ writes' = 1
            /\ \A p \in Profiles \ { flags.configName } : file'[p] = file[p] ]_vars

\* a cold start that went on to post the input: one write, made by
\* loadConfig, and the file still holds the default then
C24_Witness ==
    /\ Delivered
    /\ exitCode = 0
    /\ Len(calls) >= 1
    /\ writes = 1
    /\ config # DefaultConfig
    /\ ProfileFile = Yaml(Marshal(DefaultConfig))

\* loadConfig returned an error and main has exited
LoadFailed == pc = "exit" /\ errMsg = "Error loading config"

\* C30: if loadConfig fails (directory creation, a read error other than
\* not-found, the YAML parse, the cold-start write) the run ends with a
\* non-zero exit before any override is merged, any echo or any network
\* call; and when the cold-start write fails the Settings in memory are
\* left as they were, the default not being installed.
C30_LoadFailureIsFatal ==
    LoadFailed =>
        /\ exitCode = 1
        /\ \A sf \in ScalarFields :
              flags[sf[1]] # << >> => config[sf[2]] # flags[sf[1]]
        /\ stdout = << >>
        /\ session = << >>
        /\ messages = << >>
        /\ calls = << >>
        /\ writes = 1 =>
              /\ config = ZeroConfig
              /\ ProfileFile.state \in { "absent", "truncated" }

\* the write of the default fails and leaves a part of the file, while the
\* command line asked for passthrough of an input and gave a token
C30_Witness ==
    /\ LoadFailed
    /\ writes = 1
    /\ ProfileFile = Truncated
    /\ flags.passthrough
    /\ flags.token # << >>
    /\ Len(stdinData) > 0
    /\ config = ZeroConfig

-----------------------------------------------------------------------------
(* Invocations that run loadConfig at the same time on one profile that    *)
(* has no file. The steps are the system calls of loadConfig and           *)
(* createDefaultConfig: os.WriteFile opens the file with O_CREATE and      *)
(* O_TRUNC, which leaves it empty, and writes the data after that.         *)

MaxRuns == 2

Runs == 1 .. MaxRuns

\* a file that exists and holds nothing: an empty YAML document
EmptyFile == Yaml(<< >>)

\* an invocation before loadConfig: NewCLI's zero c.config, nothing read
StartedRun == [ pc |-> "mkdir", config |-> ZeroConfig, data |-> Absent ]

InitRace ==
    /\ runs = [ r \in Runs |-> StartedRun ]
    /\ args = NoFlag
    /\ stdin = [ tty |-> TRUE, data |-> << >> ]
    /\ flags \in { [ DefaultFlags EXCEPT !.configName = p ] : p \in Profiles }
    /\ file = [ p \in Profiles |->
                  IF p = flags.configName THEN Absent
                  ELSE Yaml(Marshal(StoredConfig)) ]
    /\ config = ZeroConfig
    /\ stdinData = << >>
    /\ stdout = << >>
    /\ session = << >>
    /\ messages = << >>
    /\ starterID = << >>
    /\ threadID = << >>
    /\ idx = 0
    /\ calls = << >>
    /\ writes = 0
    /\ exitCode = -1
    /\ errMsg = ""
    /\ pc = "race"

\* what a step of an invocation leaves alone, the file and the count of
\* writes apart
RaceFrame ==
    UNCHANGED << args, stdin, flags, config, stdinData, stdout, session,
                 messages, starterID, threadID, idx, calls, pc, exitCode,
                 errMsg >>

\* os.MkdirAll(c.configPath, 0755): the directory may exist already
RaceMkdirAll(r) ==
    /\ pc = "race"
    /\ runs[r].pc = "mkdir"
    /\ runs' = [ runs EXCEPT ![r].pc = "read" ]
    /\ UNCHANGED << file, writes >>
    /\ RaceFrame

\* data, err := os.ReadFile(configFile), first part: os.Open, which fails
\* with a not-found error when there is no file
RaceOpen(r) ==
    /\ pc = "race"
    /\ runs[r].pc = "read"
    /\ runs' = [ runs EXCEPT
                   ![r].pc = IF file[flags.configName].state = "absent"
                             THEN "create" ELSE "reading" ]
    /\ UNCHANGED << file, writes >>
    /\ RaceFrame

\* os.ReadFile, second part: the bytes the file holds are read
RaceReadFile(r) ==
    /\ pc = "race"
    /\ runs[r].pc = "reading"
    /\ runs' = [ runs EXCEPT ![r].data = file[flags.configName],
                             ![r].pc = "unmarshal" ]
    /\ UNCHANGED << file, writes >>
    /\ RaceFrame

\* err = yaml.Unmarshal(data, &c.config); an empty document sets no field
RaceUnmarshal(r) ==
    /\ pc = "race"
    /\ runs[r].pc = "unmarshal"
    /\ runs' = [ runs EXCEPT
                   ![r].config = Unmarshal(runs[r].data.doc, @),
                   ![r].pc = "done" ]
    /\ UNCHANGED << file, writes >>
    /\ RaceFrame

\* os.WriteFile, first part: OpenFile(name, O_WRONLY|O_CREATE|O_TRUNC, perm)
RaceOpenFile(r) ==
    /\ pc = "race"
    /\ runs[r].pc = "create"
    /\ file' = [ file EXCEPT ![flags.configName] = EmptyFile ]
    /\ runs' = [ runs EXCEPT ![r].pc = "write" ]
    /\ UNCHANGED writes
    /\ RaceFrame

\* os.WriteFile, second part: f.Write(data); f.Close()
RaceWrite(r) ==
    /\ pc = "race"
    /\ runs[r].pc = "write"
    /\ file' = [ file EXCEPT ![flags.configName] = Yaml(Marshal(DefaultConfig)) ]
    /\ writes' = writes + 1
    /\ runs' = [ runs EXCEPT ![r].pc = "install" ]
    /\ RaceFrame

\* c.config = defaultConfig; return nil
RaceInstall(r) ==
    /\ pc = "race"
    /\ runs[r].pc = "install"
    /\ runs' = [ runs EXCEPT ![r].config = DefaultConfig, ![r].pc = "done" ]
    /\ UNCHANGED << file, writes >>
    /\ RaceFrame

NextRace ==
    \E r \in Runs :
        \/ RaceMkdirAll(r)
        \/ RaceOpen(r)
        \/ RaceReadFile(r)
        \/ RaceUnmarshal(r)
        \/ RaceOpenFile(r)
        \/ RaceWrite(r)
        \/ RaceInstall(r)

SpecRace == InitRace /\ [][NextRace]_vars

\* loadConfig has returned nil in invocation r
RunLoaded(r) == runs[r].pc = "done"

\* C25 as claimed: when two invocations run at once on the same profile
\* that has no file, under every interleaving of their read and write steps
\* each finishes loadConfig without error holding the default Settings, and
\* the file holds the default content at the end.
C25_RaceYieldsDefault ==
    pc = "race" =>
        /\ \A r \in Runs : RunLoaded(r) => runs[r].config = DefaultConfig
        /\ (\A r \in Runs : RunLoaded(r)) =>
              file[flags.configName] = Yaml(Marshal(DefaultConfig))

====
